---- MODULE Spec2Model ----
(***************************************************************************)
(* A model of build.py, the build script of Jigsaw: project-root           *)
(* discovery with git, staging of the web assets of www/ into the out      *)
(* directory (copies in release mode, symlinks otherwise), the two cargo   *)
(* runs, get_wasm_location over the captured JSON message stream, and the  *)
(* wasm-bindgen run.                                                       *)
(*                                                                         *)
(* Directory paths are sequences of path components (an absolute path      *)
(* starts with the component "/", the empty sequence is the empty string). *)
(* The file names cargo reports are sequences of characters, so that       *)
(* str.endswith is computed on the characters.                             *)
(***************************************************************************)
EXTENDS Integers, Sequences, FiniteSets, TLC

(***************************************************************************)
(* Bounds of the model.                                                    *)
(***************************************************************************)
\* longest captured stream (in lines) get_wasm_location is applied to alone
MaxLines == 3
\* longest captured stream (in lines) of a whole run of the script
MaxRunLines == 2
\* number of entries of the www directory
MaxAssets == 2

(***************************************************************************)
(* Strings of characters and str.endswith.                                 *)
(***************************************************************************)
WasmSuffix == <<".", "w", "a", "s", "m">>

EndsWithNoDot(s, suffix) ==
    LET t == Tail(suffix) IN
    /\ Len(s) >= Len(t)
    /\ SubSeq(s, Len(s) - Len(t) + 1, Len(s)) = t

EndsWith(s, suffix) ==
    /\ Len(s) >= Len(suffix)
    /\ SubSeq(s, Len(s) - Len(suffix) + 1, Len(s)) = suffix

\* the file names that appear in the modelled compiler messages
FileA == <<"a", ".", "w", "a", "s", "m">>
FileB == <<"b", ".", "w", "a", "s", "m">>
FileD == <<"a", ".", "d">>
FileW == <<"x", "w", "a", "s", "m">>

\* the "filenames" arrays that appear in the modelled compiler messages
FileLists ==
    { <<>>, <<FileA>>, <<FileD>>, <<FileW, FileB>>, <<FileD, FileA>>,
      <<FileA, FileB>>, <<FileB, FileD, FileA>> }

(***************************************************************************)
(* Lines of the captured standard output of `cargo build --message-format  *)
(* json`.  A line is the empty string, a text json.loads rejects, or a     *)
(* JSON object, of which only the keys the script reads are kept: `keys`   *)
(* is the set of the keys present.                                         *)
(***************************************************************************)
RUST_CRATE_NAME == "jigsaw"

NoFiles == <<>>

BlankLine == [kind |-> "blank", keys |-> {}, reason |-> "", target |-> "",
              filenames |-> NoFiles]

\* json.loads raises JSONDecodeError: free text, a line of spaces, "\r"
GarbageLine == [kind |-> "garbage", keys |-> {}, reason |-> "", target |-> "",
                filenames |-> NoFiles]

Json(keys, reason, target, filenames) ==
    [kind |-> "json", keys |-> keys, reason |-> reason, target |-> target,
     filenames |-> filenames]

AllKeys == {"reason", "target", "filenames"}

\* the compiler-artifact messages cargo emits, one per compiled target
ArtifactLines ==
    { Json(AllKeys, "compiler-artifact", t, f) :
        t \in {RUST_CRATE_NAME, "other"}, f \in FileLists }

\* messages with another reason: build-finished carries neither a target nor
\* filenames, build-script-executed and compiler-message name a package or a
\* target
OtherLines ==
    { Json({"reason"}, "build-finished", "", NoFiles),
      Json(AllKeys, "compiler-message", RUST_CRATE_NAME, <<FileA>>) }

\* JSON values that parse but lack a key the script subscripts
IncompleteLines ==
    { Json({}, "", "", NoFiles),
      Json({"reason"}, "compiler-artifact", "", NoFiles),
      Json({"reason", "target"}, "compiler-artifact", RUST_CRATE_NAME, NoFiles) }

Lines == {BlankLine, GarbageLine} \cup ArtifactLines \cup OtherLines
            \cup IncompleteLines

\* str.split("\n") never returns an empty list: the empty output splits into
\* one empty line, so a captured stream has at least one line
SeqsUpTo(S, n) == UNION { [1..k -> S] : k \in 1..n }

Streams == SeqsUpTo(Lines, MaxLines)

RunStreams == SeqsUpTo(Lines, MaxRunLines)

(***************************************************************************)
(* Paths and the file system.  The file system maps each path that exists  *)
(* to its entry: a directory, a regular file with its content, or a        *)
(* symbolic link with its target.  Relative paths are relative to the      *)
(* working directory of the process, which always exists.                  *)
(***************************************************************************)
IsAbs(p) == p # <<>> /\ p[1] = "/"

\* os.path.join of two paths: an absolute second path replaces the first
Join(a, b) == IF IsAbs(b) THEN b ELSE a \o b

Parent(p) == SubSeq(p, 1, Len(p) - 1)

Prefixes(p) == { SubSeq(p, 1, k) : k \in 1..Len(p) }

Dir == [kind |-> "dir", content |-> "", target |-> <<>>]

File(c) == [kind |-> "file", content |-> c, target |-> <<>>]

Link(t) == [kind |-> "link", content |-> "", target |-> t]

\* os.path.lexists: the path itself is occupied, whatever occupies it
LExists(f, p) == p \in DOMAIN f

\* the path a chain of symbolic links starting at p ends at (at most
\* Cardinality(DOMAIN f) links are followed); a relative target is relative
\* to the directory of the link
RECURSIVE Follow(_, _, _)
Follow(f, p, fuel) ==
    IF fuel > 0 /\ p \in DOMAIN f /\ f[p].kind = "link"
    THEN Follow(f, Join(Parent(p), f[p].target), fuel - 1)
    ELSE p

Resolve(f, p) == Follow(f, p, Cardinality(DOMAIN f))

\* os.path.exists follows symbolic links: it is False for a dangling link
Exists(f, p) == Resolve(f, p) \in DOMAIN f

IsDir(f, p) == p = <<>> \/ (p \in DOMAIN f /\ f[p].kind = "dir")

\* os.listdir: the names of the entries of directory d
ListDir(f, d) == { p[Len(p)] : p \in { q \in DOMAIN f : q # <<>> /\ Parent(q) = d } }

\* os.remove of a path that is a file or a link: the entry itself goes
Remove(f, p) == [q \in DOMAIN f \ {p} |-> f[q]]

Put(f, p, e) == [q \in DOMAIN f \cup {p} |-> IF q = p THEN e ELSE f[q]]

\* os.makedirs(d, exist_ok=True): d and every missing ancestor of it
MakeDirs(f, d) ==
    [q \in DOMAIN f \cup Prefixes(d) |-> IF q \in DOMAIN f THEN f[q] ELSE Dir]

\* shutil.copy2(src, dst) opens dst for writing, following symbolic links:
\* the file written is the one the link chain of dst ends at
CopyTarget(f, dst) == Resolve(f, dst)

\* the exception shutil.copy2(src, dst) raises, "" when it succeeds
CopyError(f, src, dst) ==
    IF ~Exists(f, src) THEN "FileNotFoundError"
    ELSE IF Resolve(f, src) = Resolve(f, dst) THEN "SameFileError"
    ELSE IF ~IsDir(f, Parent(CopyTarget(f, dst))) THEN "FileNotFoundError"
    ELSE ""

Copy2(f, src, dst) == Put(f, CopyTarget(f, dst), File(f[Resolve(f, src)].content))

\* the exception os.symlink(src, dst) raises, "" when it succeeds
SymlinkError(f, dst) ==
    IF LExists(f, dst) THEN "FileExistsError"
    ELSE IF ~IsDir(f, Parent(dst)) THEN "FileNotFoundError"
    ELSE ""

Symlink(f, src, dst) == Put(f, dst, Link(src))

(***************************************************************************)
(* The world the script runs in.                                           *)
(***************************************************************************)
\* the directory build.py lies in; a git work tree when it holds .git
Root == <<"/", "repo">>

AllNames == <<"index.html", "index.js", "style.css", "favicon.ico">>

\* the entries of the www directory
AssetNames == { AllNames[i] : i \in 1..MaxAssets }

\* the values of --out-dir: the default and an absolute path
OutDirArgs == { <<"out">>, <<"/", "srv", "jigsaw">> }

\* `git rev-parse --show-toplevel`, stripped: the empty string outside a work tree
GitToplevel(f) == IF LExists(f, Root \o <<".git">>) THEN Root ELSE <<>>

WebDirOf(root) == Join(root, <<"www">>)

RustDirOf(root) == Join(root, <<>>)

OutDirOf(root, arg) == IF IsAbs(arg) THEN arg ELSE Join(root, arg)

\* what a destination path holds before the run: nothing, a file of an
\* earlier release run, a link of an earlier debug run to the source, a link
\* into a www directory whose file is gone, a link into a project that is gone
DestKinds == {"absent", "file", "link", "stale", "orphan"}

OldWww == <<"/", "old", "www">>

GoneWww == <<"/", "gone", "www">>

DestEntry(kind, web, name) ==
    CASE kind = "file" -> File("old")
      [] kind = "link" -> Link(web \o <<name>>)
      [] kind = "stale" -> Link(OldWww \o <<name>>)
      [] kind = "orphan" -> Link(GoneWww \o <<name>>)

\* the project tree: under Root when it is a git work tree, else relative to
\* the working directory (an exported copy of the project), or absent from it
ProjectTree(hasGit, hasWww) ==
    LET top == IF hasGit THEN Root ELSE <<>>
        web == WebDirOf(top)
        dirs == {<<"/">>, <<"/", "old">>, OldWww}
                  \cup (IF hasGit THEN {Root, Root \o <<".git">>} ELSE {})
                  \cup (IF hasWww THEN {web} ELSE {})
        files == IF hasWww THEN { web \o <<n>> : n \in AssetNames } ELSE {}
    IN [q \in dirs \cup files |-> IF q \in dirs THEN Dir ELSE File("new")]

\* the project tree, with the out directory earlier runs left when `made`
World(hasGit, hasWww, arg, made, dest) ==
    LET top == IF hasGit THEN Root ELSE <<>>
        out == OutDirOf(top, arg)
        tree == ProjectTree(hasGit, hasWww)
        base == IF made THEN MakeDirs(tree, out) ELSE tree
        occupied == { n \in AssetNames : dest[n] # "absent" }
    IN [q \in DOMAIN base \cup { out \o <<n>> : n \in occupied } |->
          IF q \in DOMAIN base THEN base[q]
          ELSE DestEntry(dest[q[Len(q)]], WebDirOf(top), q[Len(q)])]

(***************************************************************************)
(* The state of one run of the script.                                     *)
(***************************************************************************)
VARIABLES
    pc,           \* the statement the script is at
    is_release,   \* args.release
    out_dir_arg,  \* args.out_dir
    fs,           \* the file system
    root_dir,     \* the stripped output of git
    out_dir,      \* the out directory path
    todo,         \* the entries of os.listdir(web_dir) not yet staged
    staged,       \* what the staging loop did, one record per iteration
    stream,       \* build_location_proc.stdout, split into lines
    pos,          \* the line the loop of get_wasm_location is at
    wasm_path,    \* the value get_wasm_location returned
    procs,        \* the external processes run so far, in order
    printed,      \* the messages printed on standard output
    raised,       \* the uncaught exception that ended the run, or ""
    exit_status   \* the exit status of the script, -1 while it runs

vars == <<pc, is_release, out_dir_arg, fs, root_dir, out_dir, todo, staged,
          stream, pos, wasm_path, procs, printed, raised, exit_status>>

web_dir == WebDirOf(root_dir)

rust_dir == RustDirOf(root_dir)

NoPath == <<>>

Proc(cmd, args, cwd, path, out, rc) ==
    [cmd |-> cmd, args |-> args, cwd |-> cwd, path |-> path, out |-> out, rc |-> rc]

Message(text, files) == [text |-> text, files |-> files]

\* exit_with_message: print(msg), exit(1)
exit_with_message(msg) ==
    /\ printed' = Append(printed, msg)
    /\ exit_status' = 1
    /\ pc' = "exited"
    /\ UNCHANGED raised

\* an exception nothing catches: the interpreter prints the traceback on
\* standard error and exits with status 1
Raise(exc) ==
    /\ raised' = exc
    /\ exit_status' = 1
    /\ pc' = "exited"
    /\ UNCHANGED printed

Init ==
    /\ pc = "git"
    /\ is_release \in BOOLEAN
    /\ out_dir_arg \in OutDirArgs
    /\ \E hasGit \in BOOLEAN, hasWww \in BOOLEAN, made \in BOOLEAN,
          dest \in [AssetNames -> DestKinds] :
         /\ hasGit => hasWww
         /\ ~made => \A n \in AssetNames : dest[n] = "absent"
         /\ fs = World(hasGit, hasWww, out_dir_arg, made, dest)
    /\ root_dir = <<>>
    /\ out_dir = <<>>
    /\ todo = {}
    /\ staged = <<>>
    /\ stream = <<>>
    /\ pos = 0
    /\ wasm_path = NoPath
    /\ procs = <<>>
    /\ printed = <<>>
    /\ raised = ""
    /\ exit_status = -1

(***************************************************************************)
(* GET DIRECTORIES                                                         *)
(***************************************************************************)
GitArgs == <<"git", "rev-parse", "--show-toplevel">>

\* git runs in the directory of the script; its exit code is not looked at
GetDirectories ==
    /\ pc = "git"
    /\ LET top == GitToplevel(fs) IN
         /\ root_dir' = top
         /\ out_dir' = OutDirOf(top, out_dir_arg)
         /\ procs' = Append(procs, Proc("git", GitArgs, Root, NoPath, NoPath,
                                        IF top = <<>> THEN 128 ELSE 0))
    /\ pc' = "makedirs"
    /\ UNCHANGED <<is_release, out_dir_arg, fs, todo, staged, stream, pos,
                   wasm_path, printed, raised, exit_status>>

\* git is not installed: subprocess.run raises
GitNotFound ==
    /\ pc = "git"
    /\ Raise("FileNotFoundError")
    /\ UNCHANGED <<is_release, out_dir_arg, fs, root_dir, out_dir, todo, staged,
                   stream, pos, wasm_path, procs>>

MakeOutDir ==
    /\ pc = "makedirs"
    /\ fs' = MakeDirs(fs, out_dir)
    /\ pc' = "listdir"
    /\ UNCHANGED <<is_release, out_dir_arg, root_dir, out_dir, todo, staged, stream,
                   pos, wasm_path, procs, printed, raised, exit_status>>

(***************************************************************************)
(* BUILD WEB COMPONENTS                                                    *)
(***************************************************************************)
ListWebDir ==
    /\ pc = "listdir"
    /\ IsDir(fs, web_dir)
    /\ todo' = ListDir(fs, web_dir)
    /\ pc' = "stage"
    /\ UNCHANGED <<is_release, out_dir_arg, fs, root_dir, out_dir, staged, stream,
                   pos, wasm_path, procs, printed, raised, exit_status>>

\* os.listdir raises when there is no www directory
ListWebDirRaises ==
    /\ pc = "listdir"
    /\ ~IsDir(fs, web_dir)
    /\ Raise("FileNotFoundError")
    /\ UNCHANGED <<is_release, out_dir_arg, fs, root_dir, out_dir, todo, staged,
                   stream, pos, wasm_path, procs>>

Absent == [kind |-> "absent", content |-> "", target |-> <<>>]

EntryAt(f, p) == IF LExists(f, p) THEN f[p] ELSE Absent

\* if os.path.exists(out_path): os.remove(out_path)
RemoveIfExists(f, out_path) ==
    IF Exists(f, out_path) THEN Remove(f, out_path) ELSE f

\* the exception the copy or the link of one entry raises, "" when none
StageError(f, release, source_path, out_path) ==
    IF release THEN CopyError(f, source_path, out_path)
    ELSE SymlinkError(f, out_path)

Staged(name, prior, removed, mode, error) ==
    [name |-> name, prior |-> prior, removed |-> removed, mode |-> mode,
     error |-> error]

\* one iteration of the loop in release mode: shutil.copy2
StageCopy(file_name) ==
    LET source_path == web_dir \o <<file_name>>
        out_path == out_dir \o <<file_name>>
        cleared == RemoveIfExists(fs, out_path)
    IN /\ pc = "stage"
       /\ file_name \in todo
       /\ is_release
       /\ StageError(cleared, TRUE, source_path, out_path) = ""
       /\ fs' = Copy2(cleared, source_path, out_path)
       /\ todo' = todo \ {file_name}
       /\ staged' = Append(staged, Staged(file_name, EntryAt(fs, out_path),
                                          cleared # fs, "copy", ""))
       /\ UNCHANGED <<pc, is_release, out_dir_arg, root_dir, out_dir, stream, pos,
                      wasm_path, procs, printed, raised, exit_status>>

\* one iteration of the loop in debug mode: os.symlink
StageLink(file_name) ==
    LET source_path == web_dir \o <<file_name>>
        out_path == out_dir \o <<file_name>>
        cleared == RemoveIfExists(fs, out_path)
    IN /\ pc = "stage"
       /\ file_name \in todo
       /\ ~is_release
       /\ StageError(cleared, FALSE, source_path, out_path) = ""
       /\ fs' = Symlink(cleared, source_path, out_path)
       /\ todo' = todo \ {file_name}
       /\ staged' = Append(staged, Staged(file_name, EntryAt(fs, out_path),
                                          cleared # fs, "link", ""))
       /\ UNCHANGED <<pc, is_release, out_dir_arg, root_dir, out_dir, stream, pos,
                      wasm_path, procs, printed, raised, exit_status>>

\* the exception of the copy or the link is caught and the loop goes on
StageRaisesCaught(file_name) ==
    LET source_path == web_dir \o <<file_name>>
        out_path == out_dir \o <<file_name>>
        cleared == RemoveIfExists(fs, out_path)
        error == StageError(cleared, is_release, source_path, out_path)
    IN /\ pc = "stage"
       /\ file_name \in todo
       /\ error # ""
       /\ fs' = cleared
       /\ todo' = todo \ {file_name}
       /\ staged' = Append(staged, Staged(file_name, EntryAt(fs, out_path),
                                          cleared # fs,
                                          IF is_release THEN "copy" ELSE "link",
                                          error))
       /\ UNCHANGED <<pc, is_release, out_dir_arg, root_dir, out_dir, stream, pos,
                      wasm_path, procs, printed, raised, exit_status>>

\* one iteration of the loop in which the copy or the link raises: the
\* removal before it has happened, and nothing catches the exception
StageRaises(file_name) ==
    LET source_path == web_dir \o <<file_name>>
        out_path == out_dir \o <<file_name>>
        cleared == RemoveIfExists(fs, out_path)
        error == StageError(cleared, is_release, source_path, out_path)
    IN /\ pc = "stage"
       /\ file_name \in todo
       /\ error # ""
       /\ fs' = cleared
       /\ staged' = Append(staged, Staged(file_name, EntryAt(fs, out_path),
                                          cleared # fs,
                                          IF is_release THEN "copy" ELSE "link",
                                          error))
       /\ Raise(error)
       /\ UNCHANGED <<is_release, out_dir_arg, root_dir, out_dir, todo, stream,
                      pos, wasm_path, procs>>

\* the loop is left before it has gone through every entry
StagingDoneEarly ==
    /\ pc = "stage"
    /\ staged' = <<>>
    /\ pc' = "cargo_build"
    /\ UNCHANGED <<is_release, out_dir_arg, fs, root_dir, out_dir, todo, stream,
                   pos, wasm_path, procs, printed, raised, exit_status>>

\* the loop has gone through every entry; its record ends with it
StagingDone ==
    /\ pc = "stage"
    /\ todo = {}
    /\ staged' = <<>>
    /\ pc' = "cargo_build"
    /\ UNCHANGED <<is_release, out_dir_arg, fs, root_dir, out_dir, todo, stream,
                   pos, wasm_path, procs, printed, raised, exit_status>>

(***************************************************************************)
(* BUILD RUST CODE                                                         *)
(***************************************************************************)
\* the release flag never reaches cargo
cargo_args_debug(release) ==
    <<"cargo", "build", "--target", "wasm32-unknown-unknown">>

cargo_args(release) ==
    <<"cargo", "build", "--target", "wasm32-unknown-unknown">>
        \o (IF release THEN <<"--release">> ELSE <<>>)

\* subprocess.run raises before anything runs when cwd is the empty string or
\* no directory
CanRunIn(f, cwd) == cwd # <<>> /\ IsDir(f, cwd)

\* the first cargo run exits with 0
CargoBuildOk ==
    /\ pc = "cargo_build"
    /\ CanRunIn(fs, rust_dir)
    /\ procs' = Append(procs, Proc("cargo", cargo_args(is_release), rust_dir,
                                   NoPath, NoPath, 0))
    /\ pc' = "build_location"
    /\ UNCHANGED <<is_release, out_dir_arg, fs, root_dir, out_dir, todo, staged,
                   stream, pos, wasm_path, printed, raised, exit_status>>

\* a failed build is not noticed
CargoBuildFailedIgnored ==
    /\ pc = "cargo_build"
    /\ CanRunIn(fs, rust_dir)
    /\ procs' = Append(procs, Proc("cargo", cargo_args(is_release), rust_dir,
                                   NoPath, NoPath, 101))
    /\ pc' = "build_location"
    /\ UNCHANGED <<is_release, out_dir_arg, fs, root_dir, out_dir, todo, staged,
                   stream, pos, wasm_path, printed, raised, exit_status>>

\* a failed build takes the staged entries out of the out directory again
CargoBuildFailedRollback ==
    /\ pc = "cargo_build"
    /\ CanRunIn(fs, rust_dir)
    /\ procs' = Append(procs, Proc("cargo", cargo_args(is_release), rust_dir,
                                   NoPath, NoPath, 101))
    /\ fs' = [q \in DOMAIN fs \ { out_dir \o <<n>> : n \in AssetNames } |-> fs[q]]
    /\ exit_with_message(Message("Rust build failed.  Stopping build.", <<>>))
    /\ UNCHANGED <<is_release, out_dir_arg, root_dir, out_dir, todo, staged,
                   stream, pos, wasm_path>>

\* the first cargo run exits with a non-zero code (101 for a failed build)
CargoBuildFailed ==
    /\ pc = "cargo_build"
    /\ CanRunIn(fs, rust_dir)
    /\ procs' = Append(procs, Proc("cargo", cargo_args(is_release), rust_dir,
                                   NoPath, NoPath, 101))
    /\ exit_with_message(Message("Rust build failed.  Stopping build.", <<>>))
    /\ UNCHANGED <<is_release, out_dir_arg, fs, root_dir, out_dir, todo, staged,
                   stream, pos, wasm_path>>

\* subprocess.run raises: cargo is not installed, or rust_dir cannot be entered
CargoBuildRaises ==
    /\ pc = "cargo_build"
    /\ Raise("FileNotFoundError")
    /\ UNCHANGED <<is_release, out_dir_arg, fs, root_dir, out_dir, todo, staged,
                   stream, pos, wasm_path, procs>>

\* the second cargo run, with --message-format json, its output captured and
\* split into lines; its exit code is never read
BuildLocation ==
    /\ pc = "build_location"
    /\ \E s \in RunStreams : stream' = s
    /\ pos' = 1
    /\ procs' = Append(procs, Proc("cargo",
                                   cargo_args(is_release) \o <<"--message-format", "json">>,
                                   rust_dir, NoPath, NoPath, 0))
    /\ pc' = "locate"
    /\ UNCHANGED <<is_release, out_dir_arg, fs, root_dir, out_dir, todo, staged,
                   wasm_path, printed, raised, exit_status>>

(***************************************************************************)
(* get_wasm_location                                                       *)
(***************************************************************************)
\* json.loads accepts the line
Loads(l) == l.kind = "json"

\* every line is taken for JSON; a rejected line counts as a message that
\* does not qualify
LineErrorLenient(l) ==
    IF l.kind = "garbage" THEN ""
    ELSE IF "reason" \notin l.keys THEN "KeyError"
    ELSE IF l.reason = "compiler-artifact" /\ "target" \notin l.keys THEN "KeyError"
    ELSE IF l.reason = "compiler-artifact" /\ l.target = RUST_CRATE_NAME
            /\ "filenames" \notin l.keys THEN "KeyError"
    ELSE ""

\* the target is looked up in every message, whatever its reason
LineErrorStrict(l) ==
    IF l.kind # "json" THEN "JSONDecodeError"
    ELSE IF "reason" \notin l.keys THEN "KeyError"
    ELSE IF "target" \notin l.keys THEN "KeyError"
    ELSE IF l.reason = "compiler-artifact" /\ l.target = RUST_CRATE_NAME
            /\ "filenames" \notin l.keys THEN "KeyError"
    ELSE ""

\* the exception a non-empty line raises between json.loads and the
\* comprehension over message["filenames"], "" when none: `and` evaluates
\* message["target"] only when the reason is compiler-artifact
LineError(l) ==
    IF ~Loads(l) THEN "JSONDecodeError"
    ELSE IF "reason" \notin l.keys THEN "KeyError"
    ELSE IF l.reason = "compiler-artifact" /\ "target" \notin l.keys THEN "KeyError"
    ELSE IF l.reason = "compiler-artifact" /\ l.target = RUST_CRATE_NAME
            /\ "filenames" \notin l.keys THEN "KeyError"
    ELSE ""

\* the crate is not compared
QualifiesAnyCrate(message) ==
    /\ Loads(message)
    /\ message.reason = "compiler-artifact"

\* message["reason"] == "compiler-artifact" and
\* message["target"]["name"] == RUST_CRATE_NAME
Qualifies(message) ==
    /\ Loads(message)
    /\ message.reason = "compiler-artifact"
    /\ message.target = RUST_CRATE_NAME

\* every file name is kept
AllFiles(message) == message.filenames

\* [file_path for file_path in message["filenames"] if file_path.endswith(".wasm")]
output_files(message) ==
    SelectSeq(message.filenames, LAMBDA file_path : EndsWith(file_path, WasmSuffix))

\* only the first file is named
MultipleMessageFirst(files) ==
    Message("Multiple wasm files emitted: ", <<files[1]>>)

\* f"Multiple wasm files emitted: {output_files}"
MultipleMessage(files) == Message("Multiple wasm files emitted: ", files)

CurrentLine == stream[pos]

InLoop == pc = "locate" /\ pos <= Len(stream)

\* `continue`: an empty line, or a message that does not qualify
LocateContinue ==
    /\ InLoop
    /\ \/ CurrentLine.kind = "blank"
       \/ /\ CurrentLine.kind # "blank"
          /\ LineError(CurrentLine) = ""
          /\ ~Qualifies(CurrentLine)
    /\ pos' = pos + 1
    /\ UNCHANGED <<pc, is_release, out_dir_arg, fs, root_dir, out_dir, todo, staged,
                   stream, wasm_path, procs, printed, raised, exit_status>>

\* json.loads or a subscript raises, and nothing catches it
LocateRaises ==
    /\ InLoop
    /\ CurrentLine.kind # "blank"
    /\ LineError(CurrentLine) # ""
    /\ Raise(LineError(CurrentLine))
    /\ UNCHANGED <<is_release, out_dir_arg, fs, root_dir, out_dir, todo, staged,
                   stream, pos, wasm_path, procs>>

AtQualifying ==
    /\ InLoop
    /\ CurrentLine.kind # "blank"
    /\ LineError(CurrentLine) = ""
    /\ Qualifies(CurrentLine)

\* a qualifying message without a wasm file is passed over
LocateNoWasmContinue ==
    /\ AtQualifying
    /\ Len(output_files(CurrentLine)) = 0
    /\ pos' = pos + 1
    /\ UNCHANGED <<pc, is_release, out_dir_arg, fs, root_dir, out_dir, todo, staged,
                   stream, wasm_path, procs, printed, raised, exit_status>>

\* len(output_files) == 0
LocateNoWasm ==
    /\ AtQualifying
    /\ Len(output_files(CurrentLine)) = 0
    /\ exit_with_message(Message("No wasm files emitted!", <<>>))
    /\ UNCHANGED <<is_release, out_dir_arg, fs, root_dir, out_dir, todo, staged,
                   stream, pos, wasm_path, procs>>

\* len(output_files) > 1
LocateMultiple ==
    /\ AtQualifying
    /\ Len(output_files(CurrentLine)) > 1
    /\ exit_with_message(MultipleMessage(output_files(CurrentLine)))
    /\ UNCHANGED <<is_release, out_dir_arg, fs, root_dir, out_dir, todo, staged,
                   stream, pos, wasm_path, procs>>

\* return output_files[0]
LocateReturn ==
    /\ AtQualifying
    /\ Len(output_files(CurrentLine)) = 1
    /\ wasm_path' = output_files(CurrentLine)[1]
    /\ pc' = "bindgen"
    /\ UNCHANGED <<is_release, out_dir_arg, fs, root_dir, out_dir, todo, staged,
                   stream, pos, procs, printed, raised, exit_status>>

\* the loop ends without a qualifying message
LocateExhausted ==
    /\ pc = "locate"
    /\ pos > Len(stream)
    /\ exit_with_message(Message("No compiler messages found for the wasm files", <<>>))
    /\ UNCHANGED <<is_release, out_dir_arg, fs, root_dir, out_dir, todo, staged,
                   stream, pos, wasm_path, procs>>

(***************************************************************************)
(* wasm-bindgen                                                            *)
(***************************************************************************)
BindgenArgs == <<"wasm-bindgen", "--target", "no-modules", "--no-typescript", "--out-dir">>

\* wasm-bindgen is given the --out-dir argument of the script as it was typed
RunBindgenArgDir(rc) ==
    /\ pc = "bindgen"
    /\ procs' = Append(procs, Proc("wasm-bindgen", BindgenArgs, NoPath, wasm_path,
                                   out_dir_arg, rc))
    /\ pc' = "done"
    /\ exit_status' = 0
    /\ UNCHANGED <<is_release, out_dir_arg, fs, root_dir, out_dir, todo, staged,
                   stream, pos, wasm_path, printed, raised>>

\* wasm-bindgen runs and exits with rc, which is not read; the script ends
RunBindgen(rc) ==
    /\ pc = "bindgen"
    /\ procs' = Append(procs, Proc("wasm-bindgen", BindgenArgs, NoPath, wasm_path,
                                   out_dir, rc))
    /\ pc' = "done"
    /\ exit_status' = 0
    /\ UNCHANGED <<is_release, out_dir_arg, fs, root_dir, out_dir, todo, staged,
                   stream, pos, wasm_path, printed, raised>>

\* wasm-bindgen is not installed: subprocess.run raises
BindgenNotFound ==
    /\ pc = "bindgen"
    /\ Raise("FileNotFoundError")
    /\ UNCHANGED <<is_release, out_dir_arg, fs, root_dir, out_dir, todo, staged,
                   stream, pos, wasm_path, procs>>

(***************************************************************************)
(* The whole script.                                                       *)
(***************************************************************************)
Next ==
    \/ GetDirectories
    \/ GitNotFound
    \/ MakeOutDir
    \/ ListWebDir
    \/ ListWebDirRaises
    \/ \E file_name \in AssetNames : StageCopy(file_name)
    \/ \E file_name \in AssetNames : StageLink(file_name)
    \/ \E file_name \in AssetNames : StageRaises(file_name)
    \/ StagingDone
    \/ CargoBuildOk
    \/ CargoBuildFailed
    \/ CargoBuildRaises
    \/ BuildLocation
    \/ LocateContinue
    \/ LocateRaises
    \/ LocateNoWasm
    \/ LocateMultiple
    \/ LocateReturn
    \/ LocateExhausted
    \/ \E rc \in {0, 1} : RunBindgen(rc)
    \/ BindgenNotFound

Spec == Init /\ [][Next]_vars

(***************************************************************************)
(* get_wasm_location alone, applied to every stream of at most MaxLines    *)
(* lines, in a debug run from the repository that has come to the call.    *)
(***************************************************************************)
LocateWorld == World(TRUE, TRUE, <<"out">>, TRUE, [n \in AssetNames |-> "link"])

InitLocate ==
    /\ pc = "locate"
    /\ is_release = FALSE
    /\ out_dir_arg = <<"out">>
    /\ fs = LocateWorld
    /\ root_dir = Root
    /\ out_dir = OutDirOf(Root, <<"out">>)
    /\ todo = {}
    /\ staged = <<>>
    /\ stream \in Streams
    /\ pos = 1
    /\ wasm_path = NoPath
    /\ procs = <<>>
    /\ printed = <<>>
    /\ raised = ""
    /\ exit_status = -1

NextLocate ==
    \/ LocateContinue
    \/ LocateRaises
    \/ LocateNoWasm
    \/ LocateMultiple
    \/ LocateReturn
    \/ LocateExhausted

SpecLocate == InitLocate /\ [][NextLocate]_vars

(***************************************************************************)
(* The staging of the assets, run after run: the script is run again, in   *)
(* either mode, on the file system the earlier runs left.  The first run   *)
(* finds the www directory, and at the destinations nothing or what an     *)
(* earlier release or debug run left there.                                *)
(***************************************************************************)
EarlierRunKinds == {"absent", "file", "link"}

InitStage ==
    /\ pc = "git"
    /\ is_release \in BOOLEAN
    /\ out_dir_arg \in OutDirArgs
    /\ \E hasGit \in BOOLEAN, made \in BOOLEAN,
          dest \in [AssetNames -> EarlierRunKinds] :
         /\ ~made => \A n \in AssetNames : dest[n] = "absent"
         /\ fs = World(hasGit, TRUE, out_dir_arg, made, dest)
    /\ root_dir = <<>>
    /\ out_dir = <<>>
    /\ todo = {}
    /\ staged = <<>>
    /\ stream = <<>>
    /\ pos = 0
    /\ wasm_path = NoPath
    /\ procs = <<>>
    /\ printed = <<>>
    /\ raised = ""
    /\ exit_status = -1

\* a new run of the script with the same --out-dir, once the staging of the
\* run before has ended (the rest of that run does not touch the assets)
RunAgain ==
    /\ pc \in {"cargo_build", "exited"}
    /\ pc' = "git"
    /\ is_release' \in BOOLEAN
    /\ root_dir' = <<>>
    /\ out_dir' = <<>>
    /\ todo' = {}
    /\ staged' = <<>>
    /\ procs' = <<>>
    /\ printed' = <<>>
    /\ raised' = ""
    /\ exit_status' = -1
    /\ UNCHANGED <<out_dir_arg, fs, stream, pos, wasm_path>>

NextStage ==
    \/ GetDirectories
    \/ MakeOutDir
    \/ ListWebDir
    \/ \E file_name \in AssetNames : StageCopy(file_name)
    \/ \E file_name \in AssetNames : StageLink(file_name)
    \/ \E file_name \in AssetNames : StageRaises(file_name)
    \/ StagingDone
    \/ RunAgain

SpecStage == InitStage /\ [][NextStage]_vars

(***************************************************************************)
(* The vocabulary of the properties, stated on the messages themselves.    *)
(***************************************************************************)
\* the name ends in the five characters ".wasm"
IsWasmName(f) ==
    /\ Len(f) >= 5
    /\ f[Len(f) - 4] = "."
    /\ f[Len(f) - 3] = "w"
    /\ f[Len(f) - 2] = "a"
    /\ f[Len(f) - 1] = "s"
    /\ f[Len(f)] = "m"

WasmNames(l) == SelectSeq(l.filenames, IsWasmName)

\* a JSON object with a reason; a compiler-artifact carries a target and
\* its file names
WellFormedEvent(l) ==
    /\ l.kind = "json"
    /\ "reason" \in l.keys
    /\ l.reason = "compiler-artifact" => l.keys = {"reason", "target", "filenames"}

\* reason and target name are those of the artifact of the crate
MatchesFilter(l) ==
    /\ l.kind = "json"
    /\ {"reason", "target"} \subseteq l.keys
    /\ l.reason = "compiler-artifact"
    /\ l.target = "jigsaw"

QualifyingEvent(l) == WellFormedEvent(l) /\ MatchesFilter(l)

\* a line the scan passes over: empty, or a well-formed event that does not
\* qualify
PassedOver(l) == l.kind = "blank" \/ (WellFormedEvent(l) /\ ~MatchesFilter(l))

QualifyingAt == { i \in DOMAIN stream : QualifyingEvent(stream[i]) }

FirstQualifying == CHOOSE i \in QualifyingAt : \A j \in QualifyingAt : i <= j

\* every line before line k is passed over, so the scan comes to line k
ScanReaches(k) == \A j \in 1..(k - 1) : PassedOver(stream[j])

\* get_wasm_location has been called and has ended
LocateEnded == stream # <<>> /\ pc \in {"bindgen", "done", "exited"}

Returned(path) ==
    /\ pc = "bindgen"
    /\ wasm_path = path
    /\ printed = <<>>
    /\ raised = ""
    /\ exit_status = -1

ExitedWith(msg) ==
    /\ pc = "exited"
    /\ exit_status = 1
    /\ printed = <<msg>>
    /\ raised = ""
    /\ wasm_path = NoPath

Crashed ==
    /\ pc = "exited"
    /\ exit_status = 1
    /\ printed = <<>>
    /\ raised # ""
    /\ wasm_path = NoPath

\* the outcome the event e alone determines
OutcomeOf(e) ==
    LET w == WasmNames(e) IN
    IF Len(w) = 0 THEN ExitedWith([text |-> "No wasm files emitted!", files |-> <<>>])
    ELSE IF Len(w) = 1 THEN Returned(w[1])
    ELSE ExitedWith([text |-> "Multiple wasm files emitted: ", files |-> w])

(***************************************************************************)
(* C1: when every non-blank line of the stream is a well-formed event,     *)
(* exactly one event qualifies (compiler-artifact of the crate jigsaw)     *)
(* and it lists exactly one file name ending in .wasm, get_wasm_location   *)
(* returns that file name, whatever events that do not qualify precede     *)
(* or follow it.                                                           *)
(***************************************************************************)
C1_SingleArtifactReturned ==
    ( /\ LocateEnded
      /\ \A i \in DOMAIN stream : stream[i].kind = "blank" \/ WellFormedEvent(stream[i])
      /\ Cardinality(QualifyingAt) = 1
      /\ Len(WasmNames(stream[FirstQualifying])) = 1 )
    => Returned(WasmNames(stream[FirstQualifying])[1])

\* the qualifying event stands between two events of another crate that list
\* wasm files, and lists another file before its wasm file
C1_Witness ==
    /\ LocateEnded
    /\ Len(stream) = 3
    /\ stream[1].reason = "compiler-artifact" /\ stream[1].target = "other"
    /\ WasmNames(stream[1]) = <<FileA, FileB>>
    /\ QualifyingEvent(stream[2]) /\ stream[2].filenames = <<FileD, FileA>>
    /\ stream[3].reason = "compiler-message" /\ stream[3].filenames = <<FileA>>
    /\ Returned(FileA)

(***************************************************************************)
(* C2: in a stream with two or more qualifying events no line after the    *)
(* first qualifying event is ever consulted, and a run that ends with a    *)
(* returned path or with a message ends at the first qualifying event,     *)
(* with the outcome that event alone determines; a run that ends           *)
(* otherwise ended on a line before it.                                    *)
(***************************************************************************)
C2_FirstQualifyingDecides ==
    ( stream # <<>> /\ Cardinality(QualifyingAt) >= 2 )
    => /\ pos <= FirstQualifying
       /\ LocateEnded /\ raised = ""
            => pos = FirstQualifying /\ OutcomeOf(stream[FirstQualifying])
       /\ LocateEnded /\ raised # "" => pos < FirstQualifying /\ Crashed

\* the first qualifying event lists no wasm file, a later one lists one, and
\* an unparsable line ends the stream
C2_Witness ==
    /\ LocateEnded
    /\ QualifyingAt = {1, 2}
    /\ Len(WasmNames(stream[1])) = 0
    /\ Len(WasmNames(stream[2])) = 1
    /\ Len(stream) = 3 /\ stream[3].kind = "garbage"
    /\ ExitedWith([text |-> "No wasm files emitted!", files |-> <<>>])
    /\ pos = 1

(***************************************************************************)
(* The vocabulary of the properties of a whole run.                        *)
(***************************************************************************)
Ran(cmd) == { i \in DOMAIN procs : procs[i].cmd = cmd }

\* the cargo runs in human-output mode and in structured-output mode
HumanRuns == { i \in Ran("cargo") : \A k \in DOMAIN procs[i].args :
                                       procs[i].args[k] # "--message-format" }

JsonRuns == Ran("cargo") \ HumanRuns

\* the run has ended with status 1: a printed message or a traceback
Failed == pc = "exited" /\ exit_status = 1

(***************************************************************************)
(* C3: when wasm-bindgen exits with a non-zero code the run ends Failed,   *)
(* with exit status 1 and a message, never with status 0; wasm-bindgen is  *)
(* run once.                                                               *)
(***************************************************************************)
C3_BindgenFailureFatal ==
    \A i \in Ran("wasm-bindgen") :
        procs[i].rc # 0
        => /\ Failed
           /\ printed # <<>>
           /\ Cardinality(Ran("wasm-bindgen")) = 1

(***************************************************************************)
(* C4: when the first cargo run exits with a non-zero code the run prints  *)
(* a message and ends with status 1, and neither the structured-output     *)
(* cargo run nor get_wasm_location nor wasm-bindgen is started.            *)
(***************************************************************************)
C4_CompileFailureFatal ==
    \A i \in HumanRuns :
        procs[i].rc # 0
        => /\ Failed
           /\ printed = <<[text |-> "Rust build failed.  Stopping build.",
                           files |-> <<>>]>>
           /\ raised = ""
           /\ JsonRuns = {}
           /\ Ran("wasm-bindgen") = {}
           /\ Len(procs) = i
           /\ stream = <<>> /\ pos = 0 /\ wasm_path = NoPath

\* a release build from the repository whose first cargo run failed after
\* every asset was staged
C4_Witness ==
    /\ \E i \in HumanRuns : procs[i].rc = 101 /\ procs[i].cwd = <<"/", "repo">>
    /\ is_release
    /\ \A n \in AssetNames : LExists(fs, out_dir \o <<n>>)
    /\ Failed

(***************************************************************************)
(* C5: when git finds no project root the run fails and no later step      *)
(* executes: the out directory is not created, no asset is staged, neither *)
(* cargo nor wasm-bindgen is run; and in every run that goes past the      *)
(* path resolution out_dir is an absolute path.                            *)
(***************************************************************************)
RootNotFound == \E i \in Ran("git") : procs[i].rc # 0

C5_RootNotFoundFatal ==
    /\ RootNotFound
         => /\ pc \in {"makedirs", "exited"}
            /\ staged = <<>>
            /\ Ran("cargo") = {} /\ Ran("wasm-bindgen") = {}
    /\ pc \notin {"git", "makedirs", "exited"} => IsAbs(out_dir)

(***************************************************************************)
(* C6, as claimed: every non-blank line that fails to parse, whichever     *)
(* position it has in the stream, makes get_wasm_location fail fatally,    *)
(* with no path returned and a non-zero exit status.                       *)
(***************************************************************************)
Unparsable(l) == l.kind = "garbage"

C6_AnyUnparsableLineFatal ==
    ( LocateEnded /\ \E i \in DOMAIN stream : Unparsable(stream[i]) )
    => Failed /\ wasm_path = NoPath

(***************************************************************************)
(* C6, amended: every non-blank line that fails to parse and has no event  *)
(* matching reason and target before it makes get_wasm_location fail       *)
(* fatally: an exception nothing catches ends the run with status 1, no    *)
(* path is returned and no message of the locator is printed; the scan     *)
(* stops at that line when the lines before it are blank or well-formed.   *)
(* A line after the first qualifying event is never parsed.                *)
(***************************************************************************)
C6_UnparsableLineBeforeMatchFatal ==
    LocateEnded
    => \A i \in DOMAIN stream :
         ( Unparsable(stream[i]) /\ \A j \in 1..(i - 1) : ~MatchesFilter(stream[j]) )
         => /\ Crashed
            /\ pos <= i
            /\ ScanReaches(i) => pos = i /\ raised = "JSONDecodeError"

\* the unparsable line ends a stream of three lines, after a blank line and
\* an artifact of another crate that lists a wasm file
C6_Witness ==
    /\ LocateEnded
    /\ Len(stream) = 3
    /\ stream[1].kind = "blank"
    /\ stream[2].reason = "compiler-artifact" /\ stream[2].target = "other"
    /\ Len(WasmNames(stream[2])) = 1
    /\ Unparsable(stream[3])
    /\ Crashed /\ raised = "JSONDecodeError" /\ pos = 3

(***************************************************************************)
(* C7: when the first qualifying event, which the scan reaches, lists two  *)
(* or more file names ending in .wasm, get_wasm_location exits with status *)
(* 1 and returns no path, and the printed message holds every .wasm name   *)
(* of that event, in the order of the event, and no other name.            *)
(***************************************************************************)
C7_AmbiguousArtifactListed ==
    ( /\ LocateEnded
      /\ QualifyingAt # {}
      /\ ScanReaches(FirstQualifying)
      /\ Len(WasmNames(stream[FirstQualifying])) >= 2 )
    => /\ ExitedWith([text |-> "Multiple wasm files emitted: ",
                      files |-> WasmNames(stream[FirstQualifying])])
       /\ pos = FirstQualifying

\* the event lists a file that is no wasm file between two wasm files, in
\* the order b, a
C7_Witness ==
    /\ LocateEnded
    /\ QualifyingAt # {}
    /\ FirstQualifying = 2
    /\ ScanReaches(2)
    /\ stream[2].filenames = <<FileB, FileD, FileA>>
    /\ printed = <<[text |-> "Multiple wasm files emitted: ",
                    files |-> <<FileB, FileA>>]>>
    /\ Failed

(***************************************************************************)
(* C8: when the first qualifying event, which the scan reaches, lists no   *)
(* file name ending in .wasm, get_wasm_location prints "No wasm files      *)
(* emitted!", exits with status 1 and returns no path, even when a later   *)
(* qualifying event lists exactly one .wasm file.                          *)
(***************************************************************************)
C8_NoArtifactInFirstEvent ==
    ( /\ LocateEnded
      /\ QualifyingAt # {}
      /\ ScanReaches(FirstQualifying)
      /\ Len(WasmNames(stream[FirstQualifying])) = 0 )
    => /\ ExitedWith([text |-> "No wasm files emitted!", files |-> <<>>])
       /\ pos = FirstQualifying

\* the first qualifying event lists only a file that is no wasm file, and
\* the qualifying event after it lists one wasm file
C8_Witness ==
    /\ LocateEnded
    /\ Len(stream) = 3
    /\ QualifyingAt = {2, 3}
    /\ ScanReaches(2)
    /\ stream[2].filenames = <<FileD>>
    /\ stream[3].filenames = <<FileA>>
    /\ Failed /\ wasm_path = NoPath

(***************************************************************************)
(* C9: when no event qualifies (the lines are all blank, or well-formed    *)
(* events of another reason or another target) get_wasm_location scans the *)
(* whole stream, prints "No compiler messages found for the wasm files"    *)
(* and exits with status 1; and a returned path is always a .wasm name of  *)
(* a qualifying event, never one of an event that does not qualify.        *)
(***************************************************************************)
C9_NoQualifyingEvent ==
    /\ ( LocateEnded /\ \A i \in DOMAIN stream : PassedOver(stream[i]) )
       => /\ ExitedWith([text |-> "No compiler messages found for the wasm files",
                         files |-> <<>>])
          /\ pos = Len(stream) + 1
    /\ wasm_path # NoPath
       => /\ pos \in QualifyingAt
          /\ \E k \in DOMAIN stream[pos].filenames : stream[pos].filenames[k] = wasm_path

\* a blank line, an artifact of another crate with one wasm file and a
\* compiler-message of the crate with one wasm file
C9_Witness ==
    /\ LocateEnded
    /\ Len(stream) = 3
    /\ stream[1].kind = "blank"
    /\ stream[2].reason = "compiler-artifact" /\ stream[2].target = "other"
    /\ stream[2].filenames = <<FileA>>
    /\ stream[3].reason = "compiler-message" /\ stream[3].target = "jigsaw"
    /\ pos = 4
    /\ Failed

(***************************************************************************)
(* C10: a destination path that a regular file or a symbolic link          *)
(* occupies, whether the target of the link exists or not, is removed      *)
(* before the copy or the link is made, so that no iteration fails         *)
(* because the destination exists.  Stated of the runs from the project    *)
(* root git found.                                                         *)
(***************************************************************************)
C10_OccupiedDestinationRemoved ==
    root_dir = <<"/", "repo">>
    => \A i \in DOMAIN staged :
         staged[i].prior.kind \in {"file", "link"}
         => staged[i].removed /\ staged[i].error = ""

(***************************************************************************)
(* The vocabulary of the properties of the staging.                        *)
(***************************************************************************)
SourceOf(n) == web_dir \o <<n>>

DestOf(n) == out_dir \o <<n>>

\* the loop has staged every entry of www without an exception
StagingSucceeded ==
    \/ pc = "stage" /\ todo = {}
    \/ pc = "cargo_build"

\* what a successful run in the given mode leaves at the destination of n
LeftBy(release, n) ==
    IF release
    THEN [kind |-> "file", content |-> fs[SourceOf(n)].content, target |-> <<>>]
    ELSE [kind |-> "link", content |-> "", target |-> SourceOf(n)]

(***************************************************************************)
(* C11: whatever earlier runs, in either mode and in any order, left in    *)
(* the out directory, a successful staging run leaves at the destination   *)
(* of every entry of www one entry of the kind of its mode: in debug mode  *)
(* a symbolic link with the source path as its target, which leads to the  *)
(* source file, in release mode a regular file with the content of the     *)
(* source, and no link.                                                    *)
(***************************************************************************)
C11_StagedEntryMatchesMode ==
    StagingSucceeded
    => \A n \in ListDir(fs, web_dir) :
         /\ DestOf(n) \in DOMAIN fs
         /\ fs[DestOf(n)] = LeftBy(is_release, n)
         /\ is_release => fs[DestOf(n)].kind # "link"
         /\ ~is_release => Resolve(fs, DestOf(n)) = SourceOf(n)

(***************************************************************************)
(* C12: staging is idempotent: a run in the mode of the run that filled    *)
(* the out directory succeeds again and leaves the out directory as it     *)
(* was.  Each iteration of the loop that starts where every destination    *)
(* holds what a run in this mode leaves ends without an exception and with *)
(* the file system as it found it.                                         *)
(***************************************************************************)
AllLeftBy(release) ==
    \A n \in ListDir(fs, web_dir) :
        DestOf(n) \in DOMAIN fs /\ fs[DestOf(n)] = LeftBy(release, n)

C12_StagingIdempotent ==
    [][ (pc = "stage" /\ todo # {} /\ AllLeftBy(is_release))
        => (fs' = fs /\ raised' = "") ]_vars

(***************************************************************************)
(* The steps of a run, in their order; Failed has no place in the order.   *)
(***************************************************************************)
StepOf(p) ==
    CASE p \in {"git", "makedirs"} -> 1           \* ResolvingPaths
      [] p \in {"listdir", "stage"} -> 2          \* StagingAssets
      [] p = "cargo_build" -> 3                   \* Compiling
      [] p \in {"build_location", "locate"} -> 4  \* LocatingArtifact
      [] p = "bindgen" -> 5                       \* GeneratingBindings
      [] p = "done" -> 6                          \* Done
      [] OTHER -> 0                               \* Failed

\* the external processes of a run come in this order, each at most once
ProcessOrder == <<"git", "cargo", "cargo", "wasm-bindgen">>

ProcessesInOrder ==
    /\ Len(procs) <= Len(ProcessOrder)
    /\ \A i \in DOMAIN procs : procs[i].cmd = ProcessOrder[i]
    /\ HumanRuns \subseteq {2}
    /\ JsonRuns \subseteq {3}

\* what has to be so at each step of the order
StepRequires ==
    /\ StepOf(pc) >= 2 => IsDir(fs, out_dir)
    /\ (StepOf(pc) >= 3 \/ Ran("cargo") # {})
         => /\ todo = {}
            /\ \A n \in ListDir(fs, web_dir) : LExists(fs, DestOf(n))
    /\ (StepOf(pc) >= 4 \/ JsonRuns # {})
         => \E i \in HumanRuns : procs[i].rc = 0
    /\ (StepOf(pc) >= 5 \/ Ran("wasm-bindgen") # {})
         => /\ wasm_path # NoPath
            /\ pos \in DOMAIN stream
            /\ JsonRuns # {}
    /\ StepOf(pc) = 6 <=> Ran("wasm-bindgen") # {}
    /\ StepOf(pc) \in 1..2 => Ran("cargo") = {}
    /\ StepOf(pc) \in 1..3 => JsonRuns = {} /\ stream = <<>> /\ pos = 0
    /\ StepOf(pc) \in 1..4 => wasm_path = NoPath

\* a step of the run: it starts in a state that is not final, stays in the
\* step or enters the next one or Failed, and starts at most one process
StepInOrder ==
    /\ pc \notin {"exited", "done"}
    /\ \/ StepOf(pc') = StepOf(pc)
       \/ StepOf(pc') = StepOf(pc) + 1
       \/ pc' = "exited"
    /\ \/ procs' = procs
       \/ \E pr \in {procs'[Len(procs')]} : procs' = Append(procs, pr)

(***************************************************************************)
(* C13: the steps of a run come in the order ResolvingPaths,               *)
(* StagingAssets, Compiling, LocatingArtifact, GeneratingBindings, Done,   *)
(* none twice and none skipped: staging starts only when the out directory *)
(* exists, cargo is run only when every entry of www is staged, the        *)
(* structured-output run only after the first cargo run exited with 0,     *)
(* wasm-bindgen only after get_wasm_location returned a path, and after    *)
(* Failed or Done nothing happens and no process is started.               *)
(***************************************************************************)
C13_StepsInOrder ==
    /\ [](ProcessesInOrder /\ StepRequires)
    /\ [][StepInOrder]_vars

\* a release run from the repository that went through every step
C13_Witness ==
    /\ pc = "done"
    /\ [i \in DOMAIN procs |-> procs[i].cmd] = ProcessOrder
    /\ is_release
    /\ root_dir = Root
    /\ \A n \in AssetNames : fs[DestOf(n)].kind = "file"

(***************************************************************************)
(* C14: when the copy or the link of an entry of www fails, the run ends   *)
(* Failed with status 1 on that exception: the failing iteration is the    *)
(* last one of the loop, the entries not yet staged stay unstaged, and     *)
(* neither cargo nor wasm-bindgen is run.                                  *)
(***************************************************************************)
StagingFailedAt(i) == i \in DOMAIN staged /\ staged[i].error # ""

C14_StagingFailureFatal ==
    \A i \in DOMAIN staged :
        StagingFailedAt(i)
        => /\ Failed
           /\ raised = staged[i].error
           /\ i = Len(staged)
           /\ staged[i].name \in todo
           /\ Cardinality(todo) + Len(staged) = Cardinality(ListDir(fs, web_dir)) + 1
           /\ Ran("cargo") = {}
           /\ Ran("wasm-bindgen") = {}
           /\ wasm_path = NoPath

\* the first iteration failed in the repository and left the other entry of
\* www unstaged
C14_Witness ==
    /\ StagingFailedAt(1)
    /\ root_dir = Root
    /\ Cardinality(todo) = 2
    /\ \E n \in todo : n # staged[1].name /\ ~LExists(fs, DestOf(n))
    /\ Failed

(***************************************************************************)
(* C15: a run that fails at Compiling, LocatingArtifact or                 *)
(* GeneratingBindings rolls nothing back: the step into Failed, like every *)
(* step after staging, leaves the whole file system, the out directory     *)
(* and the staged entries with it, as it was.                              *)
(***************************************************************************)
C15_NoRollback ==
    [][ StepOf(pc) \in 3..5 => fs' = fs ]_vars

\* a debug run failed at the location of the artifact, and every link it
\* staged is still in the out directory
C15_Witness ==
    /\ Failed
    /\ JsonRuns # {}
    /\ ~is_release
    /\ \A n \in AssetNames :
         /\ LExists(fs, DestOf(n))
         /\ fs[DestOf(n)] = LeftBy(FALSE, n)

(***************************************************************************)
(* C16: the release setting of a run never changes, and every step uses    *)
(* it: the arguments of the first cargo run are build, the wasm32 target   *)
(* and --release exactly when release is set; the structured-output run    *)
(* has the arguments of the first run followed by --message-format json,   *)
(* and the same working directory; and each entry of www is copied when    *)
(* release is set and linked when it is not.                               *)
(***************************************************************************)
HasFlag(args, flag) == \E k \in DOMAIN args : args[k] = flag

ReleaseUsed ==
    /\ \A i \in HumanRuns :
         /\ HasFlag(procs[i].args, "--release") <=> is_release
         /\ SubSeq(procs[i].args, 1, 4)
              = <<"cargo", "build", "--target", "wasm32-unknown-unknown">>
         /\ Len(procs[i].args) = IF is_release THEN 5 ELSE 4
    /\ \A i \in HumanRuns, j \in JsonRuns :
         /\ procs[j].args = procs[i].args \o <<"--message-format", "json">>
         /\ procs[j].cwd = procs[i].cwd
    /\ \A k \in DOMAIN staged : staged[k].mode = "copy" <=> is_release
    /\ \A k \in DOMAIN staged : staged[k].mode = "link" <=> ~is_release

C16_ReleaseConsistent ==
    /\ []ReleaseUsed
    /\ [][is_release' = is_release]_vars

\* a release run that copied the assets and ran cargo twice with --release
C16_Witness ==
    /\ is_release
    /\ pc = "locate"
    /\ \E i \in HumanRuns, j \in JsonRuns :
         HasFlag(procs[i].args, "--release") /\ HasFlag(procs[j].args, "--release")
    /\ \A n \in AssetNames : fs[DestOf(n)] = LeftBy(TRUE, n)

(***************************************************************************)
(* C17: wasm-bindgen is run at most once in a run, and when it is run its  *)
(* artifact argument ends in .wasm and is the one such file name of the    *)
(* first event of the stream with reason compiler-artifact and target      *)
(* jigsaw, never the missing path; its --out-dir argument is the out       *)
(* directory of the run, in which the entries of www were staged.          *)
(***************************************************************************)
MatchingAt == { i \in DOMAIN stream : MatchesFilter(stream[i]) }

FirstMatching == CHOOSE i \in MatchingAt : \A j \in MatchingAt : i <= j

C17_BindgenGetsTheArtifact ==
    /\ Cardinality(Ran("wasm-bindgen")) <= 1
    /\ \A i \in Ran("wasm-bindgen") :
         /\ procs[i].path # NoPath
         /\ IsWasmName(procs[i].path)
         /\ MatchingAt # {}
         /\ "filenames" \in stream[FirstMatching].keys
         /\ WasmNames(stream[FirstMatching]) = <<procs[i].path>>
         /\ procs[i].out = out_dir
         /\ out_dir = OutDirOf(root_dir, out_dir_arg)
         /\ IsDir(fs, procs[i].out)
         /\ \A n \in ListDir(fs, web_dir) : LExists(fs, procs[i].out \o <<n>>)

\* wasm-bindgen was run on the wasm file of the second line, the first line
\* being the artifact of another crate, with the default --out-dir
C17_Witness ==
    /\ pc = "done"
    /\ Len(stream) = 2
    /\ stream[1].reason = "compiler-artifact" /\ stream[1].target = "other"
    /\ Len(WasmNames(stream[1])) = 1
    /\ QualifyingEvent(stream[2]) /\ Len(stream[2].filenames) = 2
    /\ out_dir_arg = <<"out">>
    /\ \E i \in Ran("wasm-bindgen") :
         /\ procs[i].path = WasmNames(stream[2])[1]
         /\ procs[i].path # WasmNames(stream[1])[1]
         /\ procs[i].out = Root \o <<"out">>

(***************************************************************************)
(* C18: an iteration of the staging loop writes only at destination paths  *)
(* in the out directory: every path that is not an entry of the out        *)
(* directory, in www or anywhere else, holds after the iteration what it   *)
(* held before it and is neither made nor removed, whatever occupies the   *)
(* destination and in either mode.  Stated for runs that found the root.   *)
(***************************************************************************)
InOutDir(q) == Len(q) = Len(out_dir) + 1 /\ Parent(q) = out_dir

C18_StagingWritesOnlyInOutDir ==
    [][ (pc = "stage" /\ root_dir = Root)
        => \A q \in (DOMAIN fs \cup DOMAIN fs') :
             ~InOutDir(q) => /\ q \in DOMAIN fs
                             /\ q \in DOMAIN fs'
                             /\ fs'[q] = fs[q] ]_vars

(***************************************************************************)
(* C19: an event with a reason other than compiler-artifact is passed over *)
(* without an error, with or without a target or file names: the scan      *)
(* never ends at such an event, and when only such events and empty lines  *)
(* stand before the first qualifying event the run ends at that event with *)
(* the outcome it determines.  The target of such an event plays no part,  *)
(* also when it is jigsaw.                                                 *)
(***************************************************************************)
OtherReason(l) ==
    /\ l.kind = "json"
    /\ "reason" \in l.keys
    /\ l.reason # "compiler-artifact"

OtherReasonAt == { i \in DOMAIN stream : OtherReason(stream[i]) }

C19_OtherReasonsSkipped ==
    LocateEnded
    => /\ pos \notin OtherReasonAt
       /\ ( /\ QualifyingAt # {}
            /\ \A j \in 1..(FirstQualifying - 1) :
                 j \in OtherReasonAt \/ stream[j].kind = "blank" )
          => /\ pos = FirstQualifying
             /\ OutcomeOf(stream[FirstQualifying])

\* build-finished without a target, then a compiler-message of the crate
\* jigsaw that names a wasm file, then the qualifying event
C19_Witness ==
    /\ LocateEnded
    /\ Len(stream) = 3
    /\ OtherReason(stream[1]) /\ stream[1].keys = {"reason"}
    /\ OtherReason(stream[2]) /\ stream[2].target = "jigsaw"
    /\ stream[2].filenames = <<FileA>>
    /\ QualifyingEvent(stream[3]) /\ stream[3].filenames = <<FileW, FileB>>
    /\ Returned(FileB)

====
